---- MODULE Spec2Model ----
(***************************************************************************)
(* A model of the plate scanner of Smart_parking_system                    *)
(* (smart_parking/plate_scanner/scanner.py and views.py).                  *)
(*                                                                         *)
(* A text is a sequence of one-character strings, so that it can be        *)
(* indexed, sliced and rebuilt the way the Python code does.  Python's     *)
(* None is the value None below, which is no text.                         *)
(***************************************************************************)
EXTENDS Integers, Sequences, FiniteSets, Bags, TLC

None == <<"None">>

(***************************************************************************)
(* Character classes.                                                      *)
(***************************************************************************)
UpperLetters ==
    {"A","B","C","D","E","F","G","H","I","J","K","L","M",
     "N","O","P","Q","R","S","T","U","V","W","X","Y","Z"}

LowerLetters ==
    {"a","b","c","d","e","f","g","h","i","j","k","l","m",
     "n","o","p","q","r","s","t","u","v","w","x","y","z"}

Digits == {"0","1","2","3","4","5","6","7","8","9"}

\* str.isspace for the characters of the model
Whitespace == {" ", "\t"}

\* what \w matches in re.sub(r'[^\w-]', ...)
WordChars == UpperLetters \cup LowerLetters \cup Digits \cup {"_"}

LowerSeq ==
    <<"a","b","c","d","e","f","g","h","i","j","k","l","m",
      "n","o","p","q","r","s","t","u","v","w","x","y","z">>

UpperSeq ==
    <<"A","B","C","D","E","F","G","H","I","J","K","L","M",
      "N","O","P","Q","R","S","T","U","V","W","X","Y","Z">>

\* str.upper on one character
UpperChar(c) ==
    IF c \in LowerLetters
    THEN UpperSeq[CHOOSE i \in 1..26 : LowerSeq[i] = c]
    ELSE c

\* str.upper
Upper(text) == [i \in 1..Len(text) |-> UpperChar(text[i])]

\* str.isalpha: non-empty and every character a letter
IsAlpha(text) ==
    /\ Len(text) > 0
    /\ \A i \in 1..Len(text) : text[i] \in UpperLetters \cup LowerLetters

\* str.isdigit: non-empty and every character a digit
IsDigit(text) ==
    /\ Len(text) > 0
    /\ \A i \in 1..Len(text) : text[i] \in Digits

\* Python's slice text[a:b] with 0 <= a, counted from 0, b clipped to the length
Slice(text, a, b) ==
    LET hi == IF b > Len(text) THEN Len(text) ELSE b
    IN  IF a >= hi THEN <<>> ELSE SubSeq(text, a + 1, hi)

\* text[:n]
Prefix(text, n) == Slice(text, 0, n)

\* text[n:]
Suffix(text, n) == Slice(text, n, Len(text))

\* '-' in text
HasHyphen(text) == \E i \in 1..Len(text) : text[i] = "-"

RECURSIVE RemoveChars(_, _)
\* text with every character of the set chars removed
RemoveChars(text, chars) ==
    IF text = <<>> THEN <<>>
    ELSE IF Head(text) \in chars
         THEN RemoveChars(Tail(text), chars)
         ELSE <<Head(text)>> \o RemoveChars(Tail(text), chars)

RECURSIVE KeepChars(_, _)
\* text with only the characters of the set chars kept
KeepChars(text, chars) ==
    IF text = <<>> THEN <<>>
    ELSE IF Head(text) \in chars
         THEN <<Head(text)>> \o KeepChars(Tail(text), chars)
         ELSE KeepChars(Tail(text), chars)

RECURSIVE Replace(_, _, _)
\* str.replace(old, new): every non-overlapping occurrence, left to right
Replace(text, old, new) ==
    IF Len(text) < Len(old) THEN text
    ELSE IF Prefix(text, Len(old)) = old
         THEN new \o Replace(Suffix(text, Len(old)), old, new)
         ELSE <<Head(text)>> \o Replace(Tail(text), old, new)

RECURSIVE StripLeft(_, _)
StripLeft(text, chars) ==
    IF text # <<>> /\ Head(text) \in chars
    THEN StripLeft(Tail(text), chars)
    ELSE text

RECURSIVE StripRight(_, _)
StripRight(text, chars) ==
    IF text # <<>> /\ text[Len(text)] \in chars
    THEN StripRight(SubSeq(text, 1, Len(text) - 1), chars)
    ELSE text

\* str.strip(chars)
Strip(text, chars) == StripRight(StripLeft(text, chars), chars)

(***************************************************************************)
(* PlateScanner.__init__: the fixed configuration.                         *)
(***************************************************************************)

\* One piece of a pattern: cls is "L" for [A-Z], "D" for \d, "H" for the
\* hyphen; lo..hi are the repetition counts.
Tok(cls, lo, hi) == [cls |-> cls, lo |-> lo, hi |-> hi]

\* self.plate_patterns, in the order of the list
plate_patterns ==
    << <<Tok("L",2,3), Tok("H",1,1), Tok("D",4,4)>>,
       <<Tok("L",2,3), Tok("D",4,4)>>,
       <<Tok("D",3,3), Tok("H",1,1), Tok("D",4,4)>>,
       <<Tok("D",7,7)>>,
       <<Tok("L",2,3), Tok("H",1,1), Tok("D",3,3)>>,
       <<Tok("L",2,3), Tok("D",3,3)>>,
       <<Tok("L",1,2), Tok("H",1,1), Tok("D",5,5)>>,
       <<Tok("L",1,2), Tok("D",5,5)>>,
       <<Tok("L",2,2), Tok("H",1,1), Tok("D",3,3), Tok("L",1,1)>>,
       <<Tok("L",2,2), Tok("D",3,3), Tok("L",1,1)>>,
       <<Tok("L",1,1), Tok("H",1,1), Tok("D",6,6)>>,
       <<Tok("L",1,1), Tok("D",6,6)>>,
       <<Tok("L",4,4), Tok("H",1,1), Tok("D",3,3)>>,
       <<Tok("L",4,4), Tok("D",3,3)>>,
       <<Tok("L",2,2), Tok("H",1,1), Tok("D",2,2), Tok("L",2,2)>>,
       <<Tok("L",2,2), Tok("D",2,2), Tok("L",2,2)>>,
       <<Tok("L",3,3), Tok("H",1,1), Tok("D",2,2), Tok("L",1,1)>>,
       <<Tok("L",3,3), Tok("D",2,2), Tok("L",1,1)>>,
       <<Tok("D",2,2), Tok("H",1,1), Tok("L",3,3), Tok("D",2,2)>>,
       <<Tok("D",2,2), Tok("L",3,3), Tok("D",2,2)>> >>

\* self.char_replacements restricted to the ASCII keys, in the dict's
\* iteration order.  The literal gives the key 'G' twice ('0', then '6'):
\* the dict keeps the first position and the last value.
char_replacements ==
    << <<"O","0">>, <<"Q","0">>, <<"D","0">>, <<"G","6">>, <<"C","0">>,
       <<"I","1">>, <<"L","1">>, <<"T","1">>, <<"J","1">>,
       <<"B","8">>, <<"S","5">>, <<"Z","2">>, <<"A","4">>,
       <<"E","3">>, <<"F","3">>,
       <<"H","4">>, <<"M","4">>,
       <<"N","7">>, <<"P","7">>,
       <<"R","2">>, <<"U","2">>,
       <<"V","7">>, <<"W","7">>,
       <<"X","4">>, <<"Y","4">>,
       <<"K","8">> >>

\* self.noise_chars.  The backquote of the list cannot be written in a
\* string of this language and is no character of the modelled inputs;
\* clean_text removes it anyway in its [^\w-] step.
noise_chars ==
    {"|", "/", "\\", "(", ")", "[", "]", "{", "}", "<", ">", "=", "+", "*",
     "&", "^", "%", "$", "#", "@", "!", "?", ".", ",", ";", ":", "\"", "'",
     "~", "_", "-"}

(***************************************************************************)
(* Pattern matching: pattern.fullmatch(text).                              *)
(***************************************************************************)
InClass(c, cls) ==
    CASE cls = "L" -> c \in UpperLetters
      [] cls = "D" -> c \in Digits
      [] cls = "H" -> c = "-"

\* the first k characters of text exist and are all of class cls
RunOf(text, k, cls) ==
    /\ k <= Len(text)
    /\ \A i \in 1..k : InClass(text[i], cls)

RECURSIVE FullMatch(_, _)
FullMatch(pattern, text) ==
    IF pattern = <<>> THEN text = <<>>
    ELSE \E k \in Head(pattern).lo..Head(pattern).hi :
            /\ RunOf(text, k, Head(pattern).cls)
            /\ FullMatch(Tail(pattern), Suffix(text, k))

\* some pattern of self.plate_patterns matches the whole text
MatchesAnyPattern(text) ==
    \E p \in 1..Len(plate_patterns) : FullMatch(plate_patterns[p], text)

(***************************************************************************)
(* PlateScanner.clean_text                                                 *)
(***************************************************************************)
RECURSIVE ApplyReplacements(_, _)
\* for wrong, right in table: text = text.replace(wrong, right)
ApplyReplacements(text, table) ==
    IF table = <<>> THEN text
    ELSE ApplyReplacements(Replace(text, <<Head(table)[1]>>, <<Head(table)[2]>>),
                           Tail(table))

clean_text(text) ==
    IF text = None \/ text = <<>> THEN None
    ELSE LET t1 == Strip(Upper(text), Whitespace)
             t2 == RemoveChars(t1, noise_chars)
             t3 == RemoveChars(t2, Whitespace)
             t4 == ApplyReplacements(t3, char_replacements)
             t5 == KeepChars(t4, WordChars \cup {"-"})
             t6 == Strip(t5, {"-"})
         IN  IF Len(t6) < 3 \/ Len(t6) > 12 THEN None ELSE t6

(***************************************************************************)
(* PlateScanner.format_plate_with_hyphen                                   *)
(***************************************************************************)
Hyphenate(text, n) == Prefix(text, n) \o <<"-">> \o Suffix(text, n)

format_plate_with_hyphen(text) ==
    IF Len(text) < 4 THEN None
    ELSE IF IsAlpha(Prefix(text, 2)) /\ Len(text) >= 6 THEN Hyphenate(text, 2)
    ELSE IF IsAlpha(Prefix(text, 3)) /\ Len(text) >= 7 THEN Hyphenate(text, 3)
    ELSE IF IsDigit(Prefix(text, 3)) /\ Len(text) >= 7 THEN Hyphenate(text, 3)
    ELSE IF IsAlpha(Prefix(text, 1)) /\ Len(text) >= 6 THEN Hyphenate(text, 1)
    ELSE IF IsAlpha(Prefix(text, 2)) /\ Len(text) >= 7 THEN Hyphenate(text, 2)
    ELSE IF IsAlpha(Prefix(text, 4)) /\ Len(text) >= 7 THEN Hyphenate(text, 4)
    ELSE IF IsDigit(Prefix(text, 2)) /\ Len(text) >= 6 THEN Hyphenate(text, 2)
    ELSE None

(***************************************************************************)
(* PlateScanner.try_enhanced_ocr_corrections                               *)
(***************************************************************************)
\* the list corrections, in order
corrections ==
    << << <<"0">>, <<"O">> >>, << <<"1">>, <<"I">> >>, << <<"1">>, <<"L">> >>,
       << <<"5">>, <<"S">> >>, << <<"8">>, <<"B">> >>, << <<"2">>, <<"Z">> >>,
       << <<"O">>, <<"0">> >>, << <<"I">>, <<"1">> >>, << <<"L">>, <<"1">> >>,
       << <<"S">>, <<"5">> >>, << <<"B">>, <<"8">> >>, << <<"Z">>, <<"2">> >>,
       << <<" ">>, <<>> >>, << <<" ", " ">>, <<>> >>,
       << <<"G">>, <<"6">> >>, << <<"G">>, <<"9">> >>,
       << <<"6">>, <<"G">> >>, << <<"9">>, <<"G">> >>,
       << <<"A">>, <<"4">> >>, << <<"4">>, <<"A">> >>,
       << <<"E">>, <<"3">> >>, << <<"3">>, <<"E">> >>,
       << <<"N">>, <<"7">> >>, << <<"7">>, <<"N">> >>,
       << <<"R">>, <<"2">> >>, << <<"2">>, <<"R">> >> >>

\* text.replace(old, new) for the k-th correction
Corrected(text, k) == Replace(text, corrections[k][1], corrections[k][2])

\* text[:i] + text[i+1:]
DeleteAt(text, i) == Prefix(text, i) \o Suffix(text, i + 1)

\* min(a, b)
Min(a, b) == IF a < b THEN a ELSE b

try_enhanced_ocr_corrections(text) ==
    IF Len(text) < 5 THEN None
    ELSE
    LET hitsC == {k \in 1..Len(corrections) : MatchesAnyPattern(Corrected(text, k))}
        \* range(2, min(6, len(text)-2))
        hitsH == IF ~HasHyphen(text) /\ Len(text) >= 6
                 THEN {i \in 2..(Min(6, Len(text) - 2) - 1) :
                          MatchesAnyPattern(Hyphenate(text, i))}
                 ELSE {}
        noHyphen == Replace(text, <<"-">>, <<>>)
        \* range(len(text))
        hitsD == IF Len(text) >= 6
                 THEN {i \in 0..(Len(text) - 1) : MatchesAnyPattern(DeleteAt(text, i))}
                 ELSE {}
        first(S) == CHOOSE x \in S : \A y \in S : x <= y
    IN  IF hitsC # {} THEN Corrected(text, first(hitsC))
        ELSE IF hitsH # {} THEN Hyphenate(text, first(hitsH))
        ELSE IF HasHyphen(text) /\ MatchesAnyPattern(noHyphen) THEN noHyphen
        ELSE IF hitsD # {} THEN DeleteAt(text, first(hitsD))
        ELSE None

(***************************************************************************)
(* PlateScanner.validate_plate                                             *)
(***************************************************************************)
validate_plate(text) ==
    IF text = None \/ text = <<>> THEN None
    ELSE LET t == clean_text(text)
         IN  IF t = None \/ Len(t) < 3 THEN None
             ELSE IF MatchesAnyPattern(t)
                  THEN LET formatted == IF ~HasHyphen(t)
                                        THEN format_plate_with_hyphen(t)
                                        ELSE None
                       IN  IF formatted # None THEN formatted ELSE t
                  ELSE try_enhanced_ocr_corrections(t)

(***************************************************************************)
(* Confidence values.  A raw OCR confidence is a whole number of           *)
(* hundredths (prob = 85 is 0.85).  Every factor of                        *)
(* calculate_enhanced_confidence is a multiple of 0.05, so a score is held *)
(* exactly as a whole number of units of 1/ConfScale, where 1.0 is         *)
(* ConfScale = 100 * 20^5.  The code computes in binary floating point;    *)
(* the model computes the same products and sums exactly.                  *)
(***************************************************************************)
ConfScale == 100 * 20 * 20 * 20 * 20 * 20

\* a threshold given in hundredths, as a score
Hundredths(h) == h * (ConfScale \div 100)

\* self.min_confidence, self.high_confidence, self.excellent_confidence
min_confidence == 20
high_confidence == 70
excellent_confidence == 85

\* self.scan_cooldown, in seconds
scan_cooldown == 1

\* self.frame_skip
frame_skip == 2

\* self.plate_history = deque(maxlen=10)
plate_history_maxlen == 10

\* self.frame_buffer = deque(maxlen=5)
frame_buffer_maxlen == 5

\* method_weights.get(method_name, 1.0), in twentieths
method_weight(method_name) ==
    CASE method_name = "clahe_gray"         -> 20
      [] method_name = "otsu_binary"        -> 22
      [] method_name = "adaptive_gaussian"  -> 21
      [] method_name = "inverted_binary"    -> 19
      [] method_name = "morphological"      -> 23
      [] method_name = "edge_enhanced"      -> 22
      [] method_name = "contrast_stretched" -> 21
      [] method_name = "gaussian_blur"      -> 18
      [] OTHER                              -> 20

\* sum(1 for c in plate_text if c.isalpha())
alpha_count(plate_text) ==
    Cardinality({i \in 1..Len(plate_text) :
                    plate_text[i] \in UpperLetters \cup LowerLetters})

\* sum(1 for c in plate_text if c.isdigit())
digit_count(plate_text) ==
    Cardinality({i \in 1..Len(plate_text) : plate_text[i] \in Digits})

\* plate_text in self.plate_history
InHistory(plate_text, history) ==
    \E i \in 1..Len(history) : history[i] = plate_text

\* the factors of the score, each in twentieths (20 is 1.0)
length_factor(plate_text) ==
    IF 6 <= Len(plate_text) /\ Len(plate_text) <= 9 THEN 22
    ELSE IF Len(plate_text) < 5 \/ Len(plate_text) > 10 THEN 18
    ELSE 20

hyphen_factor(plate_text) == IF HasHyphen(plate_text) THEN 21 ELSE 20

mix_factor(plate_text) ==
    IF alpha_count(plate_text) >= 2 /\ digit_count(plate_text) >= 3 THEN 22
    ELSE IF alpha_count(plate_text) = 0 \/ digit_count(plate_text) = 0 THEN 16
    ELSE 20

history_factor(plate_text, history) ==
    IF InHistory(plate_text, history) THEN 24 ELSE 20

\* the score without its last line, "return min(enhanced_confidence, 1.0)"
calculate_uncapped_confidence(base_confidence, method_name, plate_text, history) ==
    base_confidence * method_weight(method_name)
      * length_factor(plate_text) * hyphen_factor(plate_text)
      * mix_factor(plate_text) * history_factor(plate_text, history)

\* PlateScanner.calculate_enhanced_confidence; history is self.plate_history
calculate_enhanced_confidence(base_confidence, method_name, plate_text, history) ==
    LET product == base_confidence * method_weight(method_name)
                     * length_factor(plate_text) * hyphen_factor(plate_text)
                     * mix_factor(plate_text) * history_factor(plate_text, history)
    IN  Min(product, ConfScale)

(***************************************************************************)
(* What the OCR engine can report in the model.                            *)
(***************************************************************************)
\* how many text regions the OCR engine reports for one frame at most
MaxDetections == 1

\* the texts the OCR engine reports
OcrTexts ==
    { <<"1","2","3","4","5","6","7">>,
      <<"A","B","C","-","1","2","3","4">>,
      <<"A","B","-","1","2","3","4">> }

\* the raw confidences it reports, in hundredths
OcrProbs == {15, 21, 80}

\* the preprocessing methods whose images yield text, in the order of
\* preprocess_image
OcrMethods == <<"morphological", "gaussian_blur">>

MethodIndex(method_name) == CHOOSE i \in 1..Len(OcrMethods) : OcrMethods[i] = method_name

Detections ==
    [text : OcrTexts, prob : OcrProbs, method : {OcrMethods[i] : i \in 1..Len(OcrMethods)}]

\* all_results: the detections of one frame, method by method
AllResults ==
    {r \in UNION {[1..n -> Detections] : n \in 0..MaxDetections} :
        \A i \in 1..(Len(r) - 1) : MethodIndex(r[i].method) <= MethodIndex(r[i + 1].method)}

\* process_frame calls clean_text on every raw text and validate_plate on
\* the cleaned texts
OcrCleanText == [t \in OcrTexts |-> clean_text(t)]

OcrValidatePlate ==
    [c \in {OcrCleanText[t] : t \in OcrTexts} \ {None} |-> validate_plate(c)]

\* Both functions are pure, so what they return on the texts of the model is
\* worked out once, in the initial state, and looked up from then on.
VARIABLE
    ocr_table   \* [clean |-> OcrCleanText, plate |-> OcrValidatePlate]

OcrTable == [clean |-> OcrCleanText, plate |-> OcrValidatePlate]

(***************************************************************************)
(* PlateScanner.process_frame, from the OCR results on.  all_results is    *)
(* the list of detections [text, prob, method] in the order the            *)
(* preprocessing methods produced them.                                    *)
(***************************************************************************)
RECURSIVE UniqueResults(_, _)
\* the loop over all_results that fills unique_results; seen is seen_texts
UniqueResults(all_results, seen) ==
    IF all_results = <<>> THEN <<>>
    ELSE LET d == Head(all_results)
             c == ocr_table.clean[d.text]
         IN  IF c # None /\ c \notin seen /\ Len(c) >= 3
             THEN <<[text |-> c, prob |-> d.prob, method |-> d.method]>>
                    \o UniqueResults(Tail(all_results), seen \cup {c})
             ELSE UniqueResults(Tail(all_results), seen)

RECURSIVE InsertByProb(_, _)
\* r put into a list sorted by falling prob, behind its equals
InsertByProb(r, sorted) ==
    IF sorted = <<>> THEN <<r>>
    ELSE IF Head(sorted).prob >= r.prob
         THEN <<Head(sorted)>> \o InsertByProb(r, Tail(sorted))
         ELSE <<r>> \o sorted

RECURSIVE SortByProb(_, _)
\* unique_results.sort(key=lambda x: x[2], reverse=True): a stable sort
SortByProb(results, sorted) ==
    IF results = <<>> THEN sorted
    ELSE SortByProb(Tail(results), InsertByProb(Head(results), sorted))

\* the loop body without the call of validate_plate: the cleaned text is
\* taken as the plate
PlateInfoUnvalidated(r, history) ==
    IF r.prob > min_confidence
    THEN <<[text |-> r.text,
            confidence |-> calculate_enhanced_confidence(r.prob, r.method, r.text, history),
            method |-> r.method,
            raw_confidence |-> r.prob]>>
    ELSE <<>>

\* the loop body scoring against a history the text has already been pushed
\* into
PlateInfoRetroactive(r, history) ==
    LET p == ocr_table.plate[r.text]
    IN  IF r.prob > min_confidence /\ p # None
        THEN <<[text |-> p,
                confidence |-> calculate_enhanced_confidence(r.prob, r.method, p,
                                                             Append(history, p)),
                method |-> r.method,
                raw_confidence |-> r.prob]>>
        ELSE <<>>

\* the loop body of "for ... in unique_results": the dicts it appends to
\* plates for one result (one or none)
PlateInfo(r, history) ==
    LET p == ocr_table.plate[r.text]
    IN  IF r.prob > min_confidence /\ p # None
        THEN <<[text |-> p,
                confidence |-> calculate_enhanced_confidence(r.prob, r.method, p, history),
                method |-> r.method,
                raw_confidence |-> r.prob]>>
        ELSE <<>>

RECURSIVE Plates(_, _)
\* the loop over unique_results that fills plates
Plates(unique_results, history) ==
    IF unique_results = <<>> THEN <<>>
    ELSE PlateInfo(Head(unique_results), history)
           \o Plates(Tail(unique_results), history)

\* the list plates that process_frame returns for the OCR results all_results
process_frame_plates(all_results, history) ==
    Plates(SortByProb(UniqueResults(all_results, {}), <<>>), history)

(***************************************************************************)
(* PlateScanner.scan_until_plate: the per-scan bookkeeping.                *)
(* plate_candidates is the dict of the scan, held as the list of its       *)
(* entries in insertion order (the order .items() yields them).            *)
(***************************************************************************)
\* the position of plate_text in plate_candidates, 0 when it is no key
KeyIndex(candidates, plate_text) ==
    IF \E i \in 1..Len(candidates) : candidates[i].text = plate_text
    THEN CHOOSE i \in 1..Len(candidates) : candidates[i].text = plate_text
    ELSE 0

\* max(a, b)
Max(a, b) == IF a > b THEN a ELSE b

\* the body of "for plate_info in plates" on the dict
TrackCandidate(candidates, plate_info, frame) ==
    LET k == KeyIndex(candidates, plate_info.text)
        withKey == IF k = 0
                   THEN Append(candidates,
                               [text |-> plate_info.text, count |-> 0,
                                total_confidence |-> 0, max_confidence |-> 0,
                                frame |-> frame, plate_info |-> plate_info])
                   ELSE candidates
        j == IF k = 0 THEN Len(withKey) ELSE k
        old == withKey[j]
    IN  [withKey EXCEPT ![j] =
            [text |-> old.text,
             count |-> old.count + 1,
             total_confidence |-> old.total_confidence + plate_info.confidence,
             max_confidence |-> Max(old.max_confidence, plate_info.confidence),
             frame |-> frame,
             plate_info |-> plate_info]]

RECURSIVE TrackAll(_, _, _)
\* plate_candidates after the loop "for plate_info in plates"
TrackAll(candidates, plates, frame) ==
    IF plates = <<>> THEN candidates
    ELSE TrackAll(TrackCandidate(candidates, Head(plates), frame), Tail(plates), frame)

\* the append of a list without maxlen: nothing is evicted
HistoryAppendUnbounded(history, plate_text) == Append(history, plate_text)

\* deque(maxlen=10).append
HistoryAppend(history, plate_text) ==
    IF Len(history) >= plate_history_maxlen
    THEN Append(Tail(history), plate_text)
    ELSE Append(history, plate_text)

RECURSIVE HistoryAppendAll(_, _)
\* self.plate_history after the loop "for plate_info in plates"
HistoryAppendAll(history, plates) ==
    IF plates = <<>> THEN history
    ELSE HistoryAppendAll(HistoryAppend(history, Head(plates).text), Tail(plates))

\* the acceptance test with its third criterion met by two sightings
AcceptsAtTwo(count, total_confidence, max_confidence) ==
    \/ max_confidence > Hundredths(excellent_confidence)
    \/ (count >= 2 /\ total_confidence > Hundredths(high_confidence) * count)
    \/ (count >= 2 /\ total_confidence > Hundredths(min_confidence) * count)

\* the acceptance test of one entry: avg_confidence is total_confidence / count
Accepts(count, total_confidence, max_confidence) ==
    \/ max_confidence > Hundredths(excellent_confidence)
    \/ (count >= 2 /\ total_confidence > Hundredths(high_confidence) * count)
    \/ (count >= 3 /\ total_confidence > Hundredths(min_confidence) * count)

\* the entries the loop "for plate_text, candidate_info in ...items()" accepts
AcceptedKeys(candidates) ==
    {i \in 1..Len(candidates) :
        Accepts(candidates[i].count, candidates[i].total_confidence,
                candidates[i].max_confidence)}

\* final_plate_info of an accepted entry; the average is kept as its total
FinalPlateInfo(candidate_info) ==
    [text |-> candidate_info.plate_info.text,
     method |-> candidate_info.plate_info.method,
     raw_confidence |-> candidate_info.plate_info.raw_confidence,
     confidence |-> candidate_info.max_confidence,
     detection_count |-> candidate_info.count,
     total_confidence |-> candidate_info.total_confidence]

\* the condition of a loop that never looks at the clock: "while True"
LoopForever(elapsedTime, timeoutTime) == elapsedTime <= elapsedTime + timeoutTime

\* the condition of "while time.time() - start_time < timeout"
LoopCondition(elapsedTime, timeoutTime) == elapsedTime < timeoutTime

(***************************************************************************)
(* The scanner as a state machine.                                         *)
(*                                                                         *)
(* Time is counted in whole seconds.  The only use the code makes of       *)
(* time.time() is in two differences, so the model keeps the differences:  *)
(* since_scan is time.time() - self.last_scan_time and elapsed is          *)
(* time.time() - start_time of the running scan, each held only up to the  *)
(* value it is compared with.  A frame is named by the number of the read  *)
(* that produced it; NoFrame is the None that stands for "no frame".       *)
(***************************************************************************)
VARIABLES
    camera,            \* self.camera: "none" (None) or "open" (an opened capture)
    scanning,          \* self.scanning
    camera_error,      \* self.camera_error: "None" or the message
    since_scan,        \* time.time() - self.last_scan_time, up to scan_cooldown
    frame_buffer,      \* len(self.frame_buffer)
    plate_history,     \* self.plate_history
    spc,               \* scan_until_plate: "idle", "running" or "returned"
    timeout,           \* its argument
    elapsed,           \* time.time() - start_time, up to timeout
    frame_count,       \* frame_count % frame_skip
    plate_candidates,  \* its dict plate_candidates
    scan_result,       \* what it returned: [frame, plate], plate a list of 0 or 1 dicts
    vehicles,          \* the plate numbers of the Vehicle rows
    active_sessions,   \* the ParkingSession rows that are is_active: a bag of plate numbers
    scan_records,      \* the ScanRecord rows
    frames_read,       \* how many frames the camera has delivered
    validated,         \* the texts validate_plate has returned during the running scan
    validated_ever,    \* the texts validate_plate has returned in process_frame so far
    accepted,          \* the plate texts scan_until_plate has returned so far
    handles_peak,      \* the most capture handles the scanner has had open at one moment
    payment_emails,    \* the plate numbers a payment e-mail was sent for
    save_result        \* what the last save_scan call returned ("none" before the first)

VARIABLES
    raw,        \* the text handed to clean_text and validate_plate
    tpc,        \* which calls were made: "input", "cleaned", "validated", "revalidated"
    cleaned,    \* clean_text(raw)
    plate,      \* validate_plate(raw)
    replate,    \* validate_plate(plate)
    formatted   \* format_plate_with_hyphen(raw), once it was called

scannerVars ==
    <<camera, scanning, camera_error, since_scan, frame_buffer, plate_history,
      spc, timeout, elapsed, frame_count, plate_candidates, scan_result,
      vehicles, active_sessions, scan_records,
      frames_read, validated, validated_ever, accepted, handles_peak,
      payment_emails, save_result>>

textVars == <<raw, tpc, cleaned, plate, replate, formatted>>

VARIABLES
    fr_results,  \* all_results of the process_frame call under test
    fr_history,  \* self.plate_history during that call
    fr_plates,   \* the list plates it returned
    fpc          \* "input" before the call, "done" after it

frameVars == <<fr_results, fr_history, fr_plates, fpc>>

VARIABLES
    score_in,    \* the arguments of the calculate_enhanced_confidence call under test
    score_out    \* what it returned, in units of 1/ConfScale; NoScore before the call

scoreVars == <<score_in, score_out>>

VARIABLES
    pp_fail,     \* the steps of the preprocess_image call under test that raise
    pp_images,   \* the method names of the list it returned
    rd_raises,   \* the variants on which self.reader.readtext raises
    rd_budget,   \* how many variants are reached before max_processing_time is over
    rd_results,  \* all_results after the OCR loop
    vpc          \* "input", "preprocessed" or "read"

variantVars == <<pp_fail, pp_images, rd_raises, rd_budget, rd_results, vpc>>

\* the variables of the functions under test on their own
pureVars == <<textVars, frameVars, scoreVars, variantVars>>

(***************************************************************************)
(* The booking application (booking/models.py, booking/views.py).         *)
(***************************************************************************)
VARIABLES
    slot_available,  \* Slot.is_available of each slot
    bookings,        \* the Booking rows
    next_booking,    \* the number of Booking rows created so far, plus one
    req              \* each confirm_booking request: where it is, and its slot

bookingVars == <<slot_available, bookings, next_booking, req>>

vars == <<scannerVars, payment_emails, save_result,
                   pureVars, bookingVars, ocr_table>>

NoFrame == 0

\* (None, None)
NoResult == [frame |-> NoFrame, plate |-> <<>>]

(***************************************************************************)
(* Bounds of the model.                                                    *)
(***************************************************************************)
\* the largest timeout, in seconds, a scan is started with
MaxTimeout == 3

\* how many frames the camera delivers before every further read fails
MaxFrames == 3

ScanTypes == {"ENTRY", "EXIT"}

(***************************************************************************)
(* PlateScanner.__init__, an empty database, and no text under test.       *)
(***************************************************************************)
ScannerInit ==
    /\ camera = "none"
    /\ scanning = FALSE
    /\ camera_error = "None"
    /\ since_scan = scan_cooldown
    /\ frame_buffer = 0
    /\ plate_history = <<>>
    /\ spc = "idle"
    /\ timeout = 0
    /\ elapsed = 0
    /\ frame_count = 0
    /\ plate_candidates = <<>>
    /\ scan_result = NoResult
    /\ vehicles = {}
    /\ active_sessions = EmptyBag
    /\ scan_records = {}
    /\ frames_read = 0
    /\ validated = {}
    /\ validated_ever = {}
    /\ accepted = {}
    /\ handles_peak = 0
    /\ payment_emails = {}
    /\ save_result = "none"

\* format_plate_with_hyphen was not called
Unformatted == <<"not called">>

NoText ==
    /\ raw = <<>>
    /\ tpc = "input"
    /\ cleaned = None
    /\ plate = None
    /\ replate = None
    /\ formatted = Unformatted

NoFrameCall ==
    /\ fr_results = <<>>
    /\ fr_history = <<>>
    /\ fr_plates = <<>>
    /\ fpc = "input"

\* no preprocess_image call under test
NoVariantCall ==
    /\ pp_fail = {}
    /\ pp_images = <<>>
    /\ rd_raises = {}
    /\ rd_budget = 0
    /\ rd_results = <<>>
    /\ vpc = "input"

NoScore == 0 - 1

NoScoreCall ==
    /\ score_in = <<>>
    /\ score_out = NoScore

MaxBookings == 3
BookingSlots == {1, 2}
Requests == {"r1", "r2"}

\* no request under way, every slot free, no booking
NoBooking ==
    /\ slot_available = [s \in BookingSlots |-> TRUE]
    /\ bookings = {}
    /\ next_booking = 1
    /\ req = [r \in Requests |-> [pc |-> "idle", slot |-> 1]]

Init ==
    ScannerInit /\ NoText /\ NoFrameCall /\ NoScoreCall /\ NoVariantCall /\ NoBooking
    /\ ocr_table = OcrTable

(***************************************************************************)
(* PlateScanner.process_frame as a step.  What the camera and the OCR      *)
(* engine deliver is the input "given": given.ret is whether               *)
(* self.camera.read() delivered a frame, given.all_results what the OCR    *)
(* loop collected on it.                                                   *)
(***************************************************************************)
\* process_frame gets past its two early returns
CanRead == scanning /\ camera = "open" /\ since_scan >= scan_cooldown

ReadFails == [ret |-> FALSE, all_results |-> <<>>]

\* what a call of process_frame can be given in the current state, the OCR
\* results of a frame being drawn from results
GivenOf(results) ==
    IF CanRead /\ frames_read < MaxFrames
    THEN {ReadFails} \cup {[ret |-> TRUE, all_results |-> r] : r \in results}
    ELSE {ReadFails}

Given == GivenOf(AllResults)

\* "return None, plates": the plates without their frame
process_frame_no_frame(frame, all_results, history) ==
    [frame |-> NoFrame, plates |-> process_frame_plates(all_results, history)]

\* "return frame, plates" for the frame read and its OCR results
process_frame_result(frame, all_results, history) ==
    [frame |-> frame, plates |-> process_frame_plates(all_results, history)]

\* what process_frame returns
process_frame(given) ==
    IF CanRead /\ given.ret
    THEN process_frame_result(frames_read + 1, given.all_results, plate_history)
    ELSE [frame |-> NoFrame, plates |-> <<>>]

\* the texts validate_plate returns inside process_frame for these results
ValidatedIn(all_results) ==
    LET unique_results == UniqueResults(all_results, {})
    IN  {ocr_table.plate[unique_results[i].text] :
            i \in {j \in 1..Len(unique_results) :
                      unique_results[j].prob > min_confidence}} \ {None}

\* what process_frame changes in the scanner
ProcessFrameEffects(given, out) ==
    LET didRead == CanRead /\ given.ret
    IN  /\ frames_read' = IF didRead THEN frames_read + 1 ELSE frames_read
        /\ frame_buffer' = IF didRead
                           THEN Min(frame_buffer + 1, frame_buffer_maxlen)
                           ELSE frame_buffer
        /\ since_scan' = IF out.plates # <<>> THEN 0 ELSE since_scan
        /\ validated_ever' = IF didRead
                             THEN validated_ever \cup ValidatedIn(given.all_results)
                             ELSE validated_ever

(***************************************************************************)
(* PlateScanner.start_camera and stop_camera                               *)
(***************************************************************************)
\* The capture handles the scanner holds between two calls: self.camera is the
\* only attribute that keeps one.
held_handles == IF camera = "open" THEN 1 ELSE 0

\* start_camera never looks at self.camera before line 408 assigns the new
\* cv2.VideoCapture to it: a handle that is still open is neither released
\* nor reused, so while the new one is being opened both exist.
\* opened: some backend opened the camera and a test frame could be read
start_camera(opened) ==
    /\ camera' = IF opened THEN "open" ELSE "none"
    /\ scanning' = IF opened THEN TRUE ELSE scanning
    /\ camera_error' = IF opened THEN "None" ELSE "Failed to open camera"
    /\ handles_peak' = Max(handles_peak, held_handles + (IF opened THEN 1 ELSE 0))
    /\ UNCHANGED <<since_scan, frame_buffer, plate_history, spc, timeout, elapsed,
                   frame_count, plate_candidates, scan_result, vehicles,
                   active_sessions, scan_records, frames_read, validated,
                   validated_ever, accepted, payment_emails, save_result,
                   pureVars, bookingVars, ocr_table>>

StartCamera == \E opened \in BOOLEAN : start_camera(opened)

\* stop_camera without the test of line 462: release() is called on whatever
\* self.camera is, which raises when it is None.
stop_camera_unguarded(cam) ==
    [scanning |-> FALSE, camera |-> "none", raised |-> cam # "open"]

\* What stop_camera leaves in self.scanning and self.camera when self.camera
\* was cam, and whether the call raised.
stop_camera(cam) ==
    [scanning |-> FALSE,
     camera   |-> IF cam = "open" THEN "none" ELSE cam,
     raised   |-> FALSE]

StopCamera ==
    LET out == stop_camera(camera)
    IN  /\ scanning' = out.scanning
        /\ camera' = IF out.raised THEN camera ELSE out.camera
        /\ UNCHANGED <<camera_error, since_scan, frame_buffer, plate_history, spc,
                       timeout, elapsed, frame_count, plate_candidates, scan_result,
                       vehicles, active_sessions, scan_records, frames_read,
                       validated, validated_ever, accepted, handles_peak,
                       payment_emails, save_result, pureVars, bookingVars, ocr_table>>

(***************************************************************************)
(* The passing of one second.                                              *)
(***************************************************************************)
Tick ==
    /\ since_scan' = Min(since_scan + 1, scan_cooldown)
    /\ elapsed' = IF spc = "running" THEN Min(elapsed + 1, timeout) ELSE elapsed
    /\ UNCHANGED <<camera, scanning, camera_error, frame_buffer, plate_history,
                   spc, timeout, frame_count, plate_candidates, scan_result,
                   vehicles, active_sessions, scan_records, frames_read,
                   validated, validated_ever, accepted, handles_peak, payment_emails, save_result,
                   pureVars, bookingVars, ocr_table>>

(***************************************************************************)
(* PlateScanner.scan_until_plate                                           *)
(***************************************************************************)
\* the call, up to the first test of the loop condition
ScanStart ==
    /\ spc # "running"
    /\ \E t \in 0..MaxTimeout : timeout' = t
    /\ spc' = "running"
    /\ elapsed' = 0
    /\ frame_count' = 0
    /\ plate_candidates' = <<>>
    /\ scan_result' = NoResult
    /\ validated' = {}
    /\ UNCHANGED <<camera, scanning, camera_error, since_scan, frame_buffer,
                   plate_history, vehicles, active_sessions, scan_records,
                   frames_read, validated_ever, accepted, handles_peak, payment_emails, save_result,
                   pureVars, bookingVars, ocr_table>>

\* "return frame, plate": result is [frame, plate]; the locals of the call
\* are gone
ScanReturn(result) ==
    /\ spc' = "returned"
    /\ scan_result' = result
    /\ plate_candidates' = <<>>
    /\ timeout' = 0
    /\ elapsed' = 0
    /\ frame_count' = 0
    /\ accepted' = accepted \cup {result.plate[i].text : i \in 1..Len(result.plate)}

\* the loop condition fails: "return None, None"
ScanTimeout ==
    /\ spc = "running"
    /\ ~LoopCondition(elapsed, timeout)
    /\ ScanReturn(NoResult)
    /\ UNCHANGED <<camera, scanning, camera_error, since_scan, frame_buffer,
                   plate_history, vehicles, active_sessions, scan_records,
                   frames_read, validated, validated_ever, handles_peak, payment_emails, save_result,
                   pureVars, bookingVars, ocr_table>>

\* one turn of the loop that skips its frame
ScanSkip ==
    /\ spc = "running"
    /\ LoopCondition(elapsed, timeout)
    /\ (frame_count + 1) % frame_skip # 0
    /\ frame_count' = (frame_count + 1) % frame_skip
    /\ UNCHANGED <<camera, scanning, camera_error, since_scan, frame_buffer,
                   plate_history, spc, timeout, elapsed, plate_candidates,
                   scan_result, vehicles, active_sessions, scan_records,
                   frames_read, validated, validated_ever, accepted, handles_peak, payment_emails, save_result,
                   pureVars, bookingVars, ocr_table>>

\* one turn of the loop that calls process_frame: an observation cycle
scan_cycle(given) ==
    /\ spc = "running"
    /\ LoopCondition(elapsed, timeout)
    /\ (frame_count + 1) % frame_skip = 0
    /\   LET out == process_frame(given)
             tracked == TrackAll(plate_candidates, out.plates, out.frame)
             hits == AcceptedKeys(tracked)
             first == CHOOSE i \in hits : \A j \in hits : i <= j
         IN  /\ ProcessFrameEffects(given, out)
             /\ validated' = IF CanRead /\ given.ret
                             THEN validated \cup ValidatedIn(given.all_results)
                             ELSE validated
             /\ plate_history' = HistoryAppendAll(plate_history, out.plates)
             /\ IF out.plates # <<>> /\ hits # {}
                THEN ScanReturn([frame |-> tracked[first].frame,
                                 plate |-> <<FinalPlateInfo(tracked[first])>>])
                ELSE /\ plate_candidates' = tracked
                     /\ frame_count' = (frame_count + 1) % frame_skip
                     /\ UNCHANGED <<spc, scan_result, accepted, timeout, elapsed>>
    /\ UNCHANGED <<camera, scanning, camera_error, vehicles, active_sessions,
                   scan_records, handles_peak, payment_emails, save_result,
                   pureVars, bookingVars, ocr_table>>

ScanCycle == \E given \in Given : scan_cycle(given)

(***************************************************************************)
(* PlateScanner.save_scan and the view process_scan                        *)
(***************************************************************************)
\* the plate numbers of the Booking rows (Booking.vehicle_no): a vehicle with
\* a booking is registered
BookedPlates == { <<"1","2","3","-","4","5","6","7">> }

\* How a save_scan call ends: the transaction is committed and True is
\* returned; an exception is raised before the parking session is handled
\* (encoding the frame, get_or_create); or ScanRecord.objects.create raises,
\* after the session was handled.  Both exceptions roll the transaction back
\* and make save_scan return False.
SaveOutcomes == {"committed", "failed_before", "failed_record"}

\* the ENTRY branch without the lookup of an existing session
OpenSessionAlways(sessions, plate_number) == sessions (+) SetToBag({plate_number})

\* scan_type == 'ENTRY': the active session is kept, or one is created
OpenSession(sessions, plate_number) ==
    IF BagIn(plate_number, sessions)
    THEN sessions
    ELSE sessions (+) SetToBag({plate_number})

\* scan_type == 'EXIT': the first active session, if any, is closed
CloseSession(sessions, plate_number) ==
    IF BagIn(plate_number, sessions)
    THEN sessions (-) SetToBag({plate_number})
    ELSE sessions

\* delivered: send_mail of send_payment_email raised nothing
save_scan(plate_number, scan_type, confidence, outcome, delivered) ==
    LET closes == scan_type = "EXIT" /\ BagIn(plate_number, active_sessions)
        mails  == /\ outcome # "failed_before"
                  /\ closes
                  /\ plate_number \in BookedPlates
                  /\ delivered
    IN  /\ payment_emails' = IF mails
                             THEN payment_emails \cup {plate_number}
                             ELSE payment_emails
        /\ save_result' = IF outcome = "committed" THEN "True" ELSE "False"
        /\ IF outcome = "committed"
           THEN /\ vehicles' = vehicles \cup {plate_number}
                /\ active_sessions' = IF scan_type = "ENTRY"
                                      THEN OpenSession(active_sessions, plate_number)
                                      ELSE CloseSession(active_sessions, plate_number)
                /\ scan_records' = scan_records \cup
                       {[plate_number |-> plate_number, scan_type |-> scan_type,
                         confidence_score |-> confidence]}
           ELSE UNCHANGED <<vehicles, active_sessions, scan_records>>

process_scan(scan_type) ==
    /\ IF ~scanning \/ camera = "none"
       THEN UNCHANGED <<frames_read, frame_buffer, since_scan, validated_ever,
                        vehicles, active_sessions, scan_records,
                        payment_emails, save_result>>
       ELSE \E given \in Given :
              LET out == process_frame(given)
              IN  /\ ProcessFrameEffects(given, out)
                  /\ IF out.frame # NoFrame /\ out.plates # <<>>
                     THEN \E outcome \in SaveOutcomes, delivered \in BOOLEAN :
                            save_scan(out.plates[1].text, scan_type,
                                      out.plates[1].confidence, outcome, delivered)
                     ELSE UNCHANGED <<vehicles, active_sessions, scan_records,
                                      payment_emails, save_result>>
    /\ UNCHANGED <<camera, scanning, camera_error, plate_history, spc, timeout,
                   elapsed, frame_count, plate_candidates, scan_result,
                   validated, accepted, handles_peak, pureVars, bookingVars, ocr_table>>

ProcessScan == \E scan_type \in ScanTypes : process_scan(scan_type)

(***************************************************************************)
(* The scanner object under its callers: start_camera, stop_camera and     *)
(* scan_until_plate, with time passing in between.                         *)
(***************************************************************************)
ScanStep == ScanTimeout \/ ScanSkip \/ ScanCycle

Next ==
    \/ StartCamera
    \/ StopCamera
    \/ Tick
    \/ ScanStart
    \/ ScanTimeout
    \/ ScanSkip
    \/ ScanCycle

Spec == Init /\ [][Next]_vars

\* The clock advances, and a call of scan_until_plate that is under way goes
\* on executing: its loop has no blocking statement but process_frame, which
\* is taken to return.
FairSpec == Spec /\ WF_vars(Tick) /\ WF_vars(ScanStep)

(***************************************************************************)
(* The web application: the endpoints of views.py on the module-level      *)
(* scanner.  start_scan calls start_camera, stop_scan calls stop_camera,   *)
(* process_entry_scan and process_exit_scan call process_scan.  No         *)
(* endpoint calls scan_until_plate.                                        *)
(***************************************************************************)
ViewsNext ==
    \/ StartCamera
    \/ StopCamera
    \/ Tick
    \/ ProcessScan

SpecViews == Init /\ [][ViewsNext]_vars

(***************************************************************************)
(* clean_text and validate_plate on their own: a text is handed to         *)
(* clean_text, then to validate_plate, and what validate_plate returned    *)
(* is handed to validate_plate once more.                                  *)
(***************************************************************************)
\* the longest generated text
MaxTextLen == 5

\* the characters of the generated texts: a letter, the lower-case l, two
\* digits the corrections know, and the hyphen
InputChars == {"A", "l", "6", "9", "-"}

GeneratedTexts == UNION {[1..n -> InputChars] : n \in 0..MaxTextLen}

FormatLetters == {"A", "B"}

FormatDigits == {"3", "4"}

\* the texts of n characters of the set chars
TextsOf(chars, n) == [1..n -> chars]

\* the supported formats install_scanner.py prints and tests: ABC-1234,
\* AB-1234, A-12345 and 123-4567
FormatTexts ==
    UNION { {l \o <<"-">> \o d : l \in TextsOf(FormatLetters, 3), d \in TextsOf(FormatDigits, 4)},
            {l \o <<"-">> \o d : l \in TextsOf(FormatLetters, 2), d \in TextsOf(FormatDigits, 4)},
            {l \o <<"-">> \o d : l \in TextsOf(FormatLetters, 1), d \in TextsOf(FormatDigits, 5)},
            {l \o <<"-">> \o d : l \in TextsOf(FormatDigits, 3), d \in TextsOf(FormatDigits, 4)} }

\* the texts the tests of the repository and its documentation use
ExampleTexts ==
    { <<"A","B"," ","C","-","l","2","3">>,
      <<"A","B","C","-","1","2","3","4">>,
      <<"X","Y","Z","-","5","6","7","8">>,
      <<"A","B","-","1","2","3","4">>,
      <<"A","-","1","2","3","4","5">>,
      <<"1","2","3","-","4","5","6","7">>,
      <<"1","2","3","4","5","6","7">>,
      <<"1","2","3","4","5","6","7","8">>,
      <<"A","B","C","l","2","3">>,
      <<"A","B","C","0","l","2","3">>,
      <<"A","B","C","8","l","2","3">>,
      <<"A","B","C","5","l","2","3">>,
      <<"A","B","C","2","l","2","3">>,
      <<"A","B","C","@","1","2","3">>,
      <<"A","B","C"," ","1","2","3">>,
      <<"A","B","C","-","1","2","3">> }

\* the forms without hyphen the comments on self.plate_patterns name:
\* ABC1234, 1234567, ABC123 and A12345, and the forms ABCD123, AB12CD and
\* 12ABC34 of the later patterns
HyphenlessTexts ==
    { <<"A","B","C","1","2","3","4">>,
      <<"A","B","1","2","3","4">>,
      <<"1","2","3","4","5","6","7">>,
      <<"A","B","C","1","2","3">>,
      <<"A","1","2","3","4","5">>,
      <<"A","B","C","D","1","2","3">>,
      <<"A","B","1","2","C","D">>,
      <<"1","2","A","B","C","3","4">> }

RawTexts == GeneratedTexts \cup FormatTexts \cup ExampleTexts \cup HyphenlessTexts

TextInit ==
    /\ ScannerInit
    /\ NoFrameCall
    /\ NoScoreCall
    /\ NoVariantCall
    /\ NoBooking
    /\ ocr_table = OcrTable
    /\ raw \in RawTexts
    /\ tpc = "input"
    /\ cleaned = None
    /\ plate = None
    /\ replate = None
    /\ formatted = Unformatted

\* cleaned = scanner.clean_text(raw)
CleanText ==
    /\ tpc = "input"
    /\ cleaned' = clean_text(raw)
    /\ tpc' = "cleaned"
    /\ UNCHANGED <<raw, plate, replate, formatted, scannerVars, frameVars, scoreVars, variantVars, bookingVars, ocr_table>>

\* plate = scanner.validate_plate(raw)
ValidatePlate ==
    /\ tpc = "cleaned"
    /\ plate' = validate_plate(raw)
    /\ tpc' = "validated"
    /\ UNCHANGED <<raw, cleaned, replate, formatted, scannerVars, frameVars, scoreVars, variantVars, bookingVars, ocr_table>>

\* replate = scanner.validate_plate(plate), for a plate that is not None
Revalidate ==
    /\ tpc = "validated"
    /\ plate # None
    /\ replate' = validate_plate(plate)
    /\ tpc' = "revalidated"
    /\ UNCHANGED <<raw, cleaned, plate, formatted, scannerVars, frameVars, scoreVars, variantVars, bookingVars, ocr_table>>

\* formatted = scanner.format_plate_with_hyphen(raw)
FormatPlate ==
    /\ formatted = Unformatted
    /\ formatted' = format_plate_with_hyphen(raw)
    /\ UNCHANGED <<raw, tpc, cleaned, plate, replate, scannerVars, frameVars, scoreVars, variantVars, bookingVars, ocr_table>>

TextNext ==
    \/ CleanText
    \/ ValidatePlate
    \/ Revalidate
    \/ FormatPlate

SpecText == TextInit /\ [][TextNext]_vars

(***************************************************************************)
(* Properties of scan_until_plate (Spec, FairSpec)                         *)
(***************************************************************************)
\* the acceptance criteria in the words of the documentation, on the
\* sighting count, the sum of the scores and the largest score of a text
MeetsCriteria(count, total, maxScore) ==
    \/ maxScore > Hundredths(85)
    \/ (count >= 2 /\ total > Hundredths(70) * count)
    \/ (count >= 3 /\ total > Hundredths(20) * count)

\* C1: once the candidates of a cycle are recorded, scan_until_plate returns
\* a text in that cycle if and only if some tracked text has a largest score
\* above 0.85, or at least 2 sightings with an average above 0.7, or at
\* least 3 sightings with an average above 0.2.  While the scan goes on no
\* tracked text meets the criteria, and a returned text meets them.  Scores
\* [0.9] accept at once, [0.75, 0.72] accept in the second cycle,
\* [0.25, 0.28] do not accept and a third score 0.30 does.
C1_ScanAcceptance ==
    /\ spc = "running" =>
         \A i \in 1..Len(plate_candidates) :
            ~MeetsCriteria(plate_candidates[i].count,
                           plate_candidates[i].total_confidence,
                           plate_candidates[i].max_confidence)
    /\ (spc = "returned" /\ scan_result.plate # <<>>) =>
         MeetsCriteria(scan_result.plate[1].detection_count,
                       scan_result.plate[1].total_confidence,
                       scan_result.plate[1].confidence)
    /\ Accepts(1, Hundredths(90), Hundredths(90))
    /\ ~Accepts(1, Hundredths(75), Hundredths(75))
    /\ Accepts(2, Hundredths(75) + Hundredths(72), Hundredths(75))
    /\ ~Accepts(1, Hundredths(25), Hundredths(25))
    /\ ~Accepts(2, Hundredths(25) + Hundredths(28), Hundredths(28))
    /\ Accepts(3, Hundredths(25) + Hundredths(28) + Hundredths(30), Hundredths(30))

\* a scan has returned a text on its third sighting, by the third criterion
C1_Witness ==
    /\ spc = "returned"
    /\ scan_result.plate # <<>>
    /\ scan_result.plate[1].detection_count = 3
    /\ scan_result.plate[1].confidence <= Hundredths(85)
    /\ scan_result.plate[1].total_confidence <= Hundredths(70) * 3

\* C2: every text scan_until_plate returns was returned non-None by
\* validate_plate in a cycle of that same scan, and no text is among the
\* candidates of the scan or in the history buffer without having been
\* returned by validate_plate.
C2_OnlyValidatedTexts ==
    /\ \A i \in 1..Len(plate_candidates) : plate_candidates[i].text \in validated
    /\ \A i \in 1..Len(plate_history) : plate_history[i] \in validated_ever
    /\ spc = "returned" =>
         \A i \in 1..Len(scan_result.plate) : scan_result.plate[i].text \in validated

\* a scan has returned a text and the history buffer holds several texts
C2_Witness ==
    /\ spc = "returned"
    /\ scan_result.plate # <<>>
    /\ scan_result.plate[1].text \in validated
    /\ Len(plate_history) >= 2

\* C4: scan_until_plate returns a frame together with a plate or neither:
\* never a plate without a frame, never a frame without a plate.
C4_FrameAndPlateTogether ==
    spc = "returned" => (scan_result.frame = NoFrame <=> scan_result.plate = <<>>)

\* a scan has returned a frame
C4_Witness == spc = "returned" /\ scan_result.frame # NoFrame

\* C5: a call of scan_until_plate returns; once the elapsed time has reached
\* the timeout it returns (None, None), and it returns (None, None) only
\* then, whether or not the camera was started or its reads succeed.
C5_ScanTerminates ==
    /\ (spc = "running") ~> (spc = "returned")
    /\ (spc = "running" /\ ~LoopCondition(elapsed, timeout))
          ~> (spc = "returned" /\ scan_result = NoResult)
    /\ [][(spc = "running" /\ spc' = "returned" /\ scan_result'.plate = <<>>)
             => (~LoopCondition(elapsed, timeout) /\ scan_result' = NoResult)]_vars

\* a scan that saw a valid plate but never an accepted one has returned
\* (None, None)
C5_Witness ==
    /\ spc = "returned"
    /\ scan_result = NoResult
    /\ validated # {}

(***************************************************************************)
(* Properties of the endpoints (SpecViews)                                 *)
(***************************************************************************)
\* C3: a ScanRecord, and the session it opens or closes, is persisted only
\* for a plate that scan_until_plate has returned: a read of a single cycle
\* that did not go through the acceptance criteria is never persisted.
C3_PersistedOnlyAccepted ==
    /\ \A r \in scan_records : r.plate_number \in accepted
    /\ BagToSet(active_sessions) \subseteq accepted

(***************************************************************************)
(* Properties of clean_text and validate_plate (SpecText)                  *)
(***************************************************************************)
\* C6: validate_plate returns a canonical text (one clean_text leaves as it
\* is) that fully matches a pattern of plate_patterns unchanged.
C6_ExactMatchAsIs ==
    (tpc \in {"validated", "revalidated"} /\ cleaned = raw /\ MatchesAnyPattern(raw))
        => plate = raw

\* C7: validate_plate is idempotent on what it accepts: if validate_plate(x)
\* is y and not None, validate_plate(y) is y.
C7_ValidateIdempotent == tpc = "revalidated" => replate = plate

\* C8: clean_text turns the raw text "AB C-l23" into "ABC-123" and
\* validate_plate accepts it as "ABC-123".
C8_EndToEndExample ==
    (raw = <<"A","B"," ","C","-","l","2","3">> /\ tpc \in {"validated", "revalidated"})
        => /\ cleaned = <<"A","B","C","-","1","2","3">>
           /\ plate = <<"A","B","C","-","1","2","3">>

\* C9: validate_plate returns a plate, not None, for every text of the
\* supported formats: 3 letters-4 digits, 2 letters-4 digits,
\* 1 letter-5 digits and 3 digits-4 digits.
C9_SupportedFormats ==
    (raw \in FormatTexts /\ tpc \in {"validated", "revalidated"}) => plate # None

\* C10: on a text of upper-case letters, digits and the lower-case l (of a
\* length clean_text keeps), clean_text returns the text with every l
\* replaced by 1 and every other character unchanged.
C10_OnlyLReplaced ==
    (/\ tpc # "input"
     /\ Len(raw) \in 3..12
     /\ \A i \in 1..Len(raw) : raw[i] \in UpperLetters \cup Digits \cup {"l"})
        => cleaned = Replace(raw, <<"l">>, <<"1">>)

\* text with its i-th character replaced by the character c
SubstituteAt(text, i, c) == [text EXCEPT ![i] = c]

\* text with a hyphen put in front of its i-th character
InsertHyphenAt(text, i) == Prefix(text, i - 1) \o <<"-">> \o Suffix(text, i - 1)

\* the texts one edit away from text: one character replaced by its partner
\* in a pair of the confusion table, one hyphen inserted, one hyphen
\* removed, or one character deleted
OneEditTexts(text) ==
    UNION { {SubstituteAt(text, i, corrections[k][2][1]) :
                i \in {j \in 1..Len(text) : <<text[j]>> = corrections[k][1]}} :
            k \in {n \in 1..Len(corrections) : Len(corrections[n][2]) = 1} }
      \cup {InsertHyphenAt(text, i) : i \in 1..(Len(text) + 1)}
      \cup {DeleteAt(text, i) : i \in 0..(Len(text) - 1)}

\* text is a plate of the grammar, or one edit away from one
WithinOneEdit(text) ==
    \/ MatchesAnyPattern(text)
    \/ \E e \in OneEditTexts(text) : MatchesAnyPattern(e)

\* C11: validate_plate returns None for every text that needs two or more
\* independent edits to become a plate of the grammar: what it accepts
\* matches a pattern exactly or after one replacement of a character by the
\* confusion table, one hyphen inserted or removed, or one character
\* deleted.  The text is taken after clean_text.
C11_TwoEditsRejected ==
    (tpc \in {"validated", "revalidated"} /\ plate # None)
        => (cleaned # None /\ WithinOneEdit(cleaned))

\* C12: a text with a character that is no letter, no digit and no hyphen
\* (as in "ABC@123" or "ABC 123") is rejected: clean_text or validate_plate
\* returns None for it.
C12_SpecialCharsRejected ==
    (/\ tpc \in {"validated", "revalidated"}
     /\ \E i \in 1..Len(raw) :
           raw[i] \notin UpperLetters \cup LowerLetters \cup Digits \cup {"-"})
        => (cleaned = None \/ plate = None)

(***************************************************************************)
(* process_frame on its own, from the OCR results on: one call on the      *)
(* detections of one frame, with some history.                             *)
(***************************************************************************)
\* how many detections the frame under test has at most
MaxFrameDetections == 2

\* the texts the OCR engine reports on the frame under test: two that
\* validate to the same plate, two that clean to the same text, and one
\* that does not validate
FrameTexts ==
    { <<"6","6","1","2","3">>,
      <<"9","9","1","2","3">>,
      <<"1","2","3","4","5","6","7">>,
      <<"1","2","3","-","4","5","6","7">>,
      <<"A","B","-","1","2","3","4">> }

FrameProbs == {15, 21, 80}

FrameDetections ==
    [text : FrameTexts, prob : FrameProbs,
     method : {OcrMethods[i] : i \in 1..Len(OcrMethods)}]

\* all_results of the frame under test, method by method
FrameResults ==
    {r \in UNION {[1..n -> FrameDetections] : n \in 0..MaxFrameDetections} :
        \A i \in 1..(Len(r) - 1) : MethodIndex(r[i].method) <= MethodIndex(r[i + 1].method)}

\* self.plate_history at the call: empty, or holding a plate
FrameHistories == {<<>>, << <<"G","G","1","2","3">> >>}

FrameCleanText == [t \in FrameTexts |-> clean_text(t)]

FrameOcrTable ==
    [clean |-> FrameCleanText,
     plate |-> [c \in {FrameCleanText[t] : t \in FrameTexts} \ {None} |-> validate_plate(c)]]

FrameInit ==
    /\ ScannerInit
    /\ NoText
    /\ NoScoreCall
    /\ NoVariantCall
    /\ NoBooking
    /\ ocr_table = FrameOcrTable
    /\ fr_results \in FrameResults
    /\ fr_history \in FrameHistories
    /\ fr_plates = <<>>
    /\ fpc = "input"

\* plates = the second component of scanner.process_frame()
ProcessFrameCall ==
    /\ fpc = "input"
    /\ fr_plates' = process_frame_plates(fr_results, fr_history)
    /\ fpc' = "done"
    /\ UNCHANGED <<fr_results, fr_history, scannerVars, textVars, scoreVars, variantVars, bookingVars, ocr_table>>

FrameNext == ProcessFrameCall

SpecFrame == FrameInit /\ [][FrameNext]_vars

\* C13: the list of candidates one process_frame call returns holds each
\* plate text at most once, so the loop of scan_until_plate raises the
\* sighting count of a text by at most one in a cycle.
C13_OnePerTextPerCycle ==
    fpc = "done" =>
        /\ \A i, j \in 1..Len(fr_plates) : i # j => fr_plates[i].text # fr_plates[j].text
        /\ LET tracked == TrackAll(<<>>, fr_plates, 1)
           IN  \A k \in 1..Len(tracked) : tracked[k].count <= 1

\* C14: detections at or below the floor min_confidence are discarded before
\* anything else, so they cannot change the result: when a detection of the
\* frame has a confidence above min_confidence and its text validates to a
\* plate p, the list process_frame returns contains p, whatever other
\* detections of the same text the frame has and in whatever order.
C14_FloorFirst ==
    fpc = "done" =>
        \A i \in 1..Len(fr_results) :
            LET c == ocr_table.clean[fr_results[i].text]
                p == IF c = None THEN None ELSE ocr_table.plate[c]
            IN  (fr_results[i].prob > min_confidence /\ p # None)
                    => \E k \in 1..Len(fr_plates) : fr_plates[k].text = p

(***************************************************************************)
(* calculate_enhanced_confidence on its own: one call on a raw confidence  *)
(* in [0, 1], a method name, a plate text and a history.                   *)
(***************************************************************************)
\* raw confidences, in hundredths
ScoreBases == {0, 20, 50, 85, 100}

\* the eight preprocessing methods and a name that is none of them
ScoreMethods ==
    {"clahe_gray", "otsu_binary", "adaptive_gaussian", "inverted_binary",
     "morphological", "edge_enhanced", "contrast_stretched", "gaussian_blur",
     "unknown"}

\* plate texts: every factor a boost ("AB-1234"), digits only with a
\* hyphen, letters and digits without one, and a short text of letters
ScoreTexts ==
    { <<"A","B","-","1","2","3","4">>,
      <<"1","2","3","-","4","5","6","7">>,
      <<"G","G","1","2","3">>,
      <<"A","B">> }

ScoreHistories == {<<>>, << <<"A","B","-","1","2","3","4">> >>}

ScoreInit ==
    /\ ScannerInit
    /\ NoText
    /\ NoFrameCall
    /\ NoVariantCall
    /\ NoBooking
    /\ ocr_table = OcrTable
    /\ score_in \in [base_confidence : ScoreBases, method_name : ScoreMethods,
                     plate_text : ScoreTexts, history : ScoreHistories]
    /\ score_out = NoScore

\* score_out = scanner.calculate_enhanced_confidence(...)
ScoreCall ==
    /\ score_out = NoScore
    /\ score_out' = calculate_enhanced_confidence(score_in.base_confidence,
                        score_in.method_name, score_in.plate_text, score_in.history)
    /\ UNCHANGED <<score_in, scannerVars, textVars, frameVars, variantVars, bookingVars, ocr_table>>

ScoreNext == ScoreCall

SpecScore == ScoreInit /\ [][ScoreNext]_vars

\* C15: for every raw confidence in [0, 1], every method name, every plate
\* text and every history, calculate_enhanced_confidence returns a value in
\* [0, 1]: never above 1.0, also when every factor is a boost.
C15_ScoreInUnitInterval ==
    score_out # NoScore => (0 <= score_out /\ score_out <= ConfScale)

\* a call whose factors are all boosts, on the raw confidence 1.0, has
\* returned 1.0
C15_Witness ==
    /\ score_out = ConfScale
    /\ score_in.base_confidence = 100
    /\ method_weight(score_in.method_name) > 20
    /\ length_factor(score_in.plate_text) > 20
    /\ hyphen_factor(score_in.plate_text) > 20
    /\ mix_factor(score_in.plate_text) > 20
    /\ history_factor(score_in.plate_text, score_in.history) > 20

(***************************************************************************)
(* The scanner with a history buffer that is nearly full, and with         *)
(* get_system_status among its operations.                                 *)
(***************************************************************************)
\* PlateScanner.get_system_status: it builds its dict from the fields and,
\* when the camera is open, reads one frame from it
GetSystemStatus ==
    /\ \E ret \in BOOLEAN :
          frames_read' = IF camera = "open" /\ ret /\ frames_read < MaxFrames
                         THEN frames_read + 1
                         ELSE frames_read
    /\ UNCHANGED <<camera, scanning, camera_error, since_scan, frame_buffer,
                   plate_history, spc, timeout, elapsed, frame_count,
                   plate_candidates, scan_result, vehicles, active_sessions,
                   scan_records, validated, validated_ever, accepted,
                   handles_peak, payment_emails, save_result,
                   pureVars, bookingVars, ocr_table>>

\* self.plate_history after nine sightings in earlier scans
HistoryStart ==
    << <<"1","2","3","-","4","5","6","7">>, <<"1","2","3","-","4","5","6","7">>,
       <<"4","8","0","-","1","2","3","4">>, <<"1","2","3","-","4","5","6","7">>,
       <<"4","8","0","-","1","2","3","4">>, <<"4","8","0","-","1","2","3","4">>,
       <<"1","2","3","-","4","5","6","7">>, <<"4","8","0","-","1","2","3","4">>,
       <<"4","8","0","-","1","2","3","4">> >>

\* the scanner between two scans, those sightings behind it
HistoryInit ==
    /\ camera = "none"
    /\ scanning = FALSE
    /\ camera_error = "None"
    /\ since_scan = scan_cooldown
    /\ frame_buffer = frame_buffer_maxlen
    /\ plate_history = HistoryStart
    /\ spc = "idle"
    /\ timeout = 0
    /\ elapsed = 0
    /\ frame_count = 0
    /\ plate_candidates = <<>>
    /\ scan_result = NoResult
    /\ vehicles = {}
    /\ active_sessions = EmptyBag
    /\ scan_records = {}
    /\ frames_read = 0
    /\ validated = {}
    /\ validated_ever = {HistoryStart[i] : i \in 1..Len(HistoryStart)}
    /\ accepted = {}
    /\ handles_peak = 1
    /\ payment_emails = {}
    /\ save_result = "none"
    /\ NoText
    /\ NoFrameCall
    /\ NoScoreCall
    /\ NoVariantCall
    /\ NoBooking
    /\ ocr_table = OcrTable

HistoryNext ==
    \/ StartCamera
    \/ StopCamera
    \/ Tick
    \/ ScanStart
    \/ ScanTimeout
    \/ ScanSkip
    \/ ScanCycle
    \/ GetSystemStatus

SpecHistory == HistoryInit /\ [][HistoryNext]_vars

\* the last n entries of seq (all of it when it has no more than n)
LastN(seq, n) == IF Len(seq) <= n THEN seq ELSE SubSeq(seq, Len(seq) - n + 1, Len(seq))

preprocess_steps ==
    <<"gray", "clahe_gray", "otsu_binary", "adaptive_gaussian", "inverted_binary",
      "morphological", "edge_enhanced", "contrast_stretched", "gaussian_blur">>

\* PlateScanner.preprocess_image: the method names of the list it returns
\* when the steps of failing raise; the first of them ends the try block
preprocess_image(failing) ==
    IF failing = {} THEN Tail(preprocess_steps)
    ELSE IF "gray" \in failing THEN <<>>
    ELSE <<"basic_gray">>

\* what readtext finds on a variant on which it does not raise
VariantDetection(method_name) ==
    [text |-> <<"1","2","3","4","5","6","7">>, prob |-> 80, method |-> method_name]

RECURSIVE read_variants_abort(_, _, _, _)
\* the OCR loop without its inner try: the first exception ends the loop
read_variants_abort(images, i, raises, budget) ==
    IF i > Len(images) \/ i > budget THEN <<>>
    ELSE IF images[i] \in raises THEN <<>>
    ELSE <<VariantDetection(images[i])>> \o read_variants_abort(images, i + 1, raises, budget)

RECURSIVE read_variants(_, _, _, _)
\* the loop "for method_name, processed_img in processed_images" from the
\* i-th variant on: what it appends to all_results.  The loop breaks once
\* the time budget is over; an exception of readtext is caught and the loop
\* continues.
read_variants(images, i, raises, budget) ==
    IF i > Len(images) \/ i > budget THEN <<>>
    ELSE IF images[i] \in raises THEN read_variants(images, i + 1, raises, budget)
    ELSE <<VariantDetection(images[i])>> \o read_variants(images, i + 1, raises, budget)

VariantInit ==
    /\ ScannerInit
    /\ NoText
    /\ NoFrameCall
    /\ NoScoreCall
    /\ NoBooking
    /\ ocr_table = OcrTable
    /\ pp_fail \in SUBSET {preprocess_steps[i] : i \in 1..Len(preprocess_steps)}
    /\ pp_images = <<>>
    /\ rd_raises = {}
    /\ rd_budget = 0
    /\ rd_results = <<>>
    /\ vpc = "input"

\* processed_images = self.preprocess_image(frame)
PreprocessCall ==
    /\ vpc = "input"
    /\ pp_images' = preprocess_image(pp_fail)
    /\ vpc' = "preprocessed"
    /\ UNCHANGED <<pp_fail, rd_raises, rd_budget, rd_results,
                   scannerVars, textVars, frameVars, scoreVars, bookingVars, ocr_table>>

\* the OCR loop on processed_images
ReadVariants ==
    /\ vpc = "preprocessed"
    /\ \E raises \in SUBSET {pp_images[i] : i \in 1..Len(pp_images)},
          budget \in 0..Len(pp_images) :
          /\ rd_raises' = raises
          /\ rd_budget' = budget
          /\ rd_results' = read_variants(pp_images, 1, raises, budget)
    /\ vpc' = "read"
    /\ UNCHANGED <<pp_fail, pp_images, scannerVars, textVars, frameVars, scoreVars, bookingVars, ocr_table>>

VariantNext ==
    \/ PreprocessCall
    \/ ReadVariants

SpecVariants == VariantInit /\ [][VariantNext]_vars

\* the position of a step in preprocess_steps
StepIndex(step) == CHOOSE i \in 1..Len(preprocess_steps) : preprocess_steps[i] = step

\* the step was reached and did not raise
Computed(step, failing) ==
    \A i \in 1..StepIndex(step) : preprocess_steps[i] \notin failing

\* C17: preprocess_image does not raise, and when a method fails only that
\* method is missing from the list it returns: the variant of every method
\* that was computed without failing is in the list under its own name.
C17_OnlyFailedMethodMissing ==
    vpc # "input" =>
        \A k \in 2..Len(preprocess_steps) :
            Computed(preprocess_steps[k], pp_fail)
                => \E i \in 1..Len(pp_images) : pp_images[i] = preprocess_steps[k]

\* C18: when readtext raises on a variant, the exception stays inside
\* process_frame, the detections collected from earlier variants are kept
\* and the later variants are still read, as far as the time budget goes:
\* all_results holds, in order, the detection of every variant within the
\* budget on which readtext did not raise, and nothing else.
C18_OcrErrorPerVariant ==
    vpc = "read" =>
        LET read == {i \in 1..Len(pp_images) :
                        i <= rd_budget /\ pp_images[i] \notin rd_raises}
        IN  /\ Len(rd_results) = Cardinality(read)
            /\ \A i \in read : \E k \in 1..Len(rd_results) :
                  rd_results[k] = VariantDetection(pp_images[i])
            /\ \A k \in 1..(Len(rd_results) - 1) :
                  StepIndex(rd_results[k].method) < StepIndex(rd_results[k + 1].method)

\* readtext has raised on a variant in the middle: the detections of the
\* variants before and after it are in all_results
C18_Witness ==
    /\ vpc = "read"
    /\ rd_raises = {"adaptive_gaussian"}
    /\ rd_budget = Len(pp_images)
    /\ Len(rd_results) = 7
    /\ rd_results[1].method = "clahe_gray"
    /\ rd_results[7].method = "gaussian_blur"


(***************************************************************************)
(* Camera handles                                                          *)
(***************************************************************************)
\* C19: at every moment the scanner holds at most one unreleased camera
\* handle, also when start_camera is called again without a stop_camera in
\* between or when a start attempt fails, and once stop_camera has returned
\* (scanning is False) no handle is held.
C19_AtMostOneHandle ==
    /\ handles_peak <= 1
    /\ held_handles <= 1
    /\ (~scanning => held_handles = 0)

\* C20: stop_camera is idempotent: after one call scanning is False and no
\* open camera handle is held; a second call, or a call with no start before
\* it, raises nothing and leaves the whole scanner state as the first call
\* left it.
C20_StopIdempotent ==
    /\ [](LET once  == stop_camera(camera)
              twice == stop_camera(once.camera)
          IN  /\ ~once.raised
              /\ once.scanning = FALSE
              /\ once.camera # "open"
              /\ twice = once)
    /\ [][StopCamera =>
             /\ scanning' = FALSE
             /\ camera' # "open"
             /\ ((~scanning /\ camera # "open") => UNCHANGED vars)]_vars

\* stop_camera has returned after a camera had been opened
C20_Witness == ~scanning /\ camera = "none" /\ handles_peak >= 1


(***************************************************************************)
(* get_system_status                                                       *)
(***************************************************************************)
\* C21: get_system_status has no side effects: a call leaves every scanner
\* field as it was and takes no frame from the camera, so the frames later
\* process_frame calls see are those they would have seen without the call.
C21_StatusNoSideEffects ==
    [][GetSystemStatus => UNCHANGED scannerVars]_vars


(***************************************************************************)
(* booking.views.confirm_booking and delete_booking.  A confirm_booking   *)
(* request reads the slot and tests it, and later saves the booking; the  *)
(* view holds no lock and opens no transaction, so the steps of other     *)
(* requests can come between the two.                                     *)
(***************************************************************************)
\* slot = get_object_or_404(Slot, id=slot_id); if not slot.is_available: ...
ConfirmCheck(r, s) ==
    /\ req[r].pc = "idle"
    /\ req' = [req EXCEPT ![r] = [pc   |-> IF slot_available[s]
                                          THEN "checked" ELSE "refused",
                                  slot |-> s]]
    /\ UNCHANGED <<slot_available, bookings, next_booking,
                   scannerVars, pureVars, ocr_table>>

\* Booking.save: the row is inserted, then its slot is marked as taken
Booking_save(s) ==
    /\ bookings' = bookings \cup {[id |-> next_booking, slot |-> s]}
    /\ next_booking' = next_booking + 1
    /\ slot_available' = [slot_available EXCEPT ![s] = FALSE]

\* booking = Booking(..., slot=slot, ...); booking.save()
ConfirmSave(r) ==
    /\ req[r].pc = "checked"
    /\ next_booking <= MaxBookings
    /\ Booking_save(req[r].slot)
    /\ req' = [req EXCEPT ![r].pc = "created"]
    /\ UNCHANGED <<scannerVars, pureVars, ocr_table>>

\* the redirect is returned; the next request may come
ConfirmReturn(r) ==
    /\ req[r].pc \in {"created", "refused"}
    /\ req' = [req EXCEPT ![r] = [pc |-> "idle", slot |-> 1]]
    /\ UNCHANGED <<slot_available, bookings, next_booking,
                   scannerVars, pureVars, ocr_table>>

\* delete_booking, POST by an admin: booking.delete()
delete_booking(b) ==
    /\ b \in bookings
    /\ bookings' = bookings \ {b}
    /\ UNCHANGED <<slot_available, next_booking, req,
                   scannerVars, pureVars, ocr_table>>

DeleteBooking == \E b \in bookings : delete_booking(b)

BookingNext ==
    \/ \E r \in Requests, s \in BookingSlots : ConfirmCheck(r, s)
    \/ \E r \in Requests : ConfirmSave(r)
    \/ \E r \in Requests : ConfirmReturn(r)
    \/ DeleteBooking

SpecBooking == Init /\ [][BookingNext]_vars

\* C22: after delete_booking has deleted a booking, the slot of that booking
\* is available again (is_available = True), so that a later confirm_booking
\* for the slot is not refused as already booked.
C22_DeleteFreesSlot ==
    [][\A b \in bookings : delete_booking(b) => slot_available'[b.slot]]_vars

\* C30: when two confirm_booking requests for the same available slot are
\* interleaved, at most one Booking is created for the slot (the other
\* request is refused): no slot ever has two bookings.
C30_OneBookingPerSlot ==
    \A b1 \in bookings : \A b2 \in bookings : b1.slot = b2.slot => b1 = b2


(***************************************************************************)
(* process_frame and what it remembers between cycles                      *)
(***************************************************************************)
\* C23: the candidates process_frame produces for a frame depend only on the
\* frame, its OCR results, the configuration and the history buffer: whatever
\* earlier calls returned and however recently they ran, a running scanner
\* that is given a frame returns what the pipeline computes from the OCR
\* results and the history.
C23_OnlyHistoryCarriesOver ==
    (scanning /\ camera = "open") =>
        \A r \in AllResults :
            process_frame([ret |-> TRUE, all_results |-> r]).plates
                = process_frame_plates(r, plate_history)


(***************************************************************************)
(* scan_until_plate on frames with up to two text regions, among them two  *)
(* that validate to the same plate.                                        *)
(***************************************************************************)
CycleTexts ==
    { <<"6","6","1","2","3">>,
      <<"9","9","1","2","3">> }

CycleProbs == {21, 80}

CycleDetections == [text : CycleTexts, prob : CycleProbs, method : {"morphological"}]

\* all_results of one frame
CycleResults == UNION {[1..n -> CycleDetections] : n \in 0..MaxFrameDetections}

CycleInit ==
    /\ ScannerInit
    /\ NoText
    /\ NoFrameCall
    /\ NoScoreCall
    /\ NoVariantCall
    /\ NoBooking
    /\ ocr_table = FrameOcrTable

ScanCycleFrames == \E given \in GivenOf(CycleResults) : scan_cycle(given)

CycleNext ==
    \/ StartCamera
    \/ StopCamera
    \/ Tick
    \/ ScanStart
    \/ ScanTimeout
    \/ ScanSkip
    \/ ScanCycleFrames

SpecCycle == CycleInit /\ [][CycleNext]_vars

\* the score of a plate dict as the scorer computes it against history
ScoreAgainst(plate_info, history) ==
    calculate_enhanced_confidence(plate_info.raw_confidence, plate_info.method,
                                  plate_info.text, history)

\* C24: within scan_until_plate the history bonus is never retroactive.  In
\* a cycle that read a frame, every candidate the cycle touched carries the
\* score computed against the history as it stood before the cycle, the
\* texts of the cycle being pushed only afterwards: a text that the history
\* did not hold before the cycle has a score without the bonus, also when
\* the cycle detected it twice, and also when the cycle accepted it.
C24_BonusNotRetroactive ==
    [][(spc = "running" /\ frames_read' = frames_read + 1) =>
          /\ \A i \in 1..Len(plate_candidates') :
                LET c == plate_candidates'[i]
                IN  c.frame = frames_read' =>
                      /\ c.plate_info.confidence = ScoreAgainst(c.plate_info, plate_history)
                      /\ InHistory(c.text, plate_history')
                      /\ ~InHistory(c.text, plate_history) =>
                            c.max_confidence = ScoreAgainst(c.plate_info, <<>>)
          /\ \A i \in 1..Len(scan_result'.plate) :
                LET p == scan_result'.plate[i]
                IN  ~InHistory(p.text, plate_history) =>
                        \E prob \in 0..100 :
                            p.confidence = calculate_enhanced_confidence(
                                               prob, p.method, p.text, <<>>)
      ]_vars

\* the first cycle of a scan has detected the same new plate twice and has
\* pushed it twice
C24_Witness ==
    /\ spc = "running"
    /\ frames_read = 1
    /\ \E i \in 1..Len(plate_candidates) :
          /\ plate_candidates[i].count = 2
          /\ plate_history = <<plate_candidates[i].text, plate_candidates[i].text>>


(***************************************************************************)
(* format_plate_with_hyphen                                                *)
(***************************************************************************)
RECURSIVE LeadingRun(_)
\* the length of the leading run of letters, or of digits, of text
LeadingRun(text) ==
    IF Len(text) <= 1 THEN Len(text)
    ELSE IF (text[1] \in Digits) = (text[2] \in Digits)
         THEN 1 + LeadingRun(Tail(text))
         ELSE 1

\* C25: for a text without hyphen that fully matches a pattern,
\* format_plate_with_hyphen returns None or a text with a hyphen that fully
\* matches a pattern; the hyphen stands where the leading run of letters, or
\* of digits, ends (for a text that is not one run).
C25_FormatKeepsGrammar ==
    (formatted # Unformatted /\ ~HasHyphen(raw) /\ MatchesAnyPattern(raw)) =>
        \/ formatted = None
        \/ /\ MatchesAnyPattern(formatted)
           /\ LeadingRun(raw) < Len(raw) =>
                 formatted = Hyphenate(raw, LeadingRun(raw))


(***************************************************************************)
(* The order of the candidates of a frame                                  *)
(***************************************************************************)
\* C26: the first element of the list process_frame returns has the highest
\* final confidence of all candidates of the list, so that process_scan,
\* which persists element 0, persists the plate of the highest confidence.
C26_FirstIsBest ==
    fpc = "done" =>
        \A i \in 1..Len(fr_plates) : fr_plates[1].confidence >= fr_plates[i].confidence


(***************************************************************************)
(* scanning and the camera handle                                          *)
(***************************************************************************)
\* C27: in every state reachable by start_camera, stop_camera and
\* process_frame calls, scanning = True implies that the scanner holds an
\* open camera handle; a start_camera call that fails leaves scanning False.
C27_ScanningHasCamera == scanning => camera = "open"


(***************************************************************************)
(* save_scan and the parking sessions (SpecViews)                          *)
(***************************************************************************)
\* C28: after any sequence of ENTRY and EXIT scans that save_scan processes
\* one at a time, every vehicle has at most one active parking session: an
\* ENTRY for a vehicle that has an active session opens no new one, and an
\* EXIT leaves the vehicle with no active session.
C28_OneActiveSession ==
    [][/\ \A p \in BagToSet(active_sessions') : CopiesIn(p, active_sessions') <= 1
       /\ \A rec \in scan_records' \ scan_records :
             /\ rec.scan_type = "EXIT" => ~BagIn(rec.plate_number, active_sessions')
             /\ (rec.scan_type = "ENTRY" /\ BagIn(rec.plate_number, active_sessions))
                    => active_sessions' = active_sessions
      ]_vars

\* a vehicle was scanned at the entry twice, with no exit scan, and has one
\* active session
C28_Witness ==
    \E r1 \in scan_records : \E r2 \in scan_records :
        /\ r1 # r2
        /\ r1.plate_number = r2.plate_number
        /\ \A r \in scan_records :
              r.plate_number = r1.plate_number => r.scan_type = "ENTRY"
        /\ CopiesIn(r1.plate_number, active_sessions) = 1

\* C29: when save_scan returns False nothing of the scan has taken effect:
\* no Vehicle, ParkingSession or ScanRecord was created or changed, and no
\* payment e-mail was sent for the session whose closing was rolled back.
C29_FailedSaveHasNoEffect ==
    [][save_result' = "False" =>
          UNCHANGED <<vehicles, active_sessions, scan_records, payment_emails>>]_vars

====
